---- MODULE Spec2Model ----
(***************************************************************************)
(* Model of the validating admission webhook in src/cmd/root.go.           *)
(*                                                                         *)
(* The server runs validatePod once per inbound request, each invocation   *)
(* on its own goroutine.  A handler's locals (admissionReviewRequest, pod, *)
(* admissionResponse, the ResponseWriter) are per-invocation; the package  *)
(* variables codecs and logger are shared by all invocations.              *)
(*                                                                         *)
(* Strings are TLA+ strings, except apiVersion, which is a sequence of     *)
(* tokens so that ParseGroupVersion can count and split on "/".            *)
(* A Go pointer is a sequence of length 0 (nil) or 1.                      *)
(* A request body is given by what the deserializer makes of it: codecs is *)
(* built from an empty runtime.Scheme (line 24), so no type is registered  *)
(* and Decode is a plain JSON unmarshal into the target struct, with no    *)
(* check of apiVersion or kind and no required fields.                     *)
(***************************************************************************)
EXTENDS Integers, Sequences, FiniteSets, TLC

\* ---------------------------------------------------------------- bounds
NumHandlers == 2
MaxApiLen == 3

\* ------------------------------------------------------------- constants
StatusOK == 200
StatusBadRequest == 400
StatusInternalServerError == 500

Handlers == 1..NumHandlers

\* ------------------------------------------------------------ input sets
Slash == "/"
ApiTokens == {"admission.k8s.io", "v1", Slash}
ApiVersions == UNION {[1..n -> ApiTokens] : n \in 0..MaxApiLen}
Kinds == {"AdmissionReview", ""}
UIDs == {"705ab4f5-6393-11e8-b7cc-42010a800002", ""}
ContentTypes == {"application/json", "", "text/plain", "application/json; charset=utf-8"}
LabelKeys == {"hello", "Hello"}
LabelValues == {"world", "World", ""}
LabelSets == UNION {[D -> LabelValues] : D \in SUBSET LabelKeys}
Resources == [Group : {"", "apps"}, Version : {"v1", "v1beta1"}, Resource : {"pods", "deployments"}]

\* request.object.raw: bytes that do not unmarshal into a corev1.Pod, or a Pod
RawObjects == {[shape |-> "garbage", labels |-> <<>>]}
              \cup [shape : {"pod"}, labels : LabelSets]
AdmissionRequests == [UID : UIDs, Resource : Resources, Object : RawObjects]
\* an AdmissionReview document; Request is nil when the request section is absent
Reviews == [APIVersion : ApiVersions, Kind : Kinds,
            Request : {<<>>} \cup {<<a>> : a \in AdmissionRequests}]
NoReview == [APIVersion |-> <<>>, Kind |-> "", Request |-> <<>>]
Bodies == {[shape |-> "unreadable", review |-> NoReview],
           [shape |-> "garbage", review |-> NoReview]}
          \cup [shape : {"review"}, review : Reviews]
Requests == [contentType : ContentTypes, body : Bodies]

\* ------------------------------------------------- conversions (line 138)
\* strings.Count(gv, "/")
RECURSIVE CountSlash(_)
CountSlash(s) == IF s = <<>> THEN 0
                 ELSE (IF Head(s) = Slash THEN 1 ELSE 0) + CountSlash(Tail(s))

\* strings.Index(gv, "/"), for a string that holds one
RECURSIVE IndexSlash(_)
IndexSlash(s) == IF Head(s) = Slash THEN 1 ELSE 1 + IndexSlash(Tail(s))

\* schema.ParseGroupVersion: "" and "/" are the empty GroupVersion, "v" is
\* {"", v}, "g/v" is {g, v}, and more than one "/" is an error
ParseGroupVersion(gv) ==
    IF gv = <<>> \/ gv = <<Slash>>
    THEN [err |-> FALSE, Group |-> <<>>, Version |-> <<>>]
    ELSE IF CountSlash(gv) = 0
    THEN [err |-> FALSE, Group |-> <<>>, Version |-> gv]
    ELSE IF CountSlash(gv) = 1
    THEN LET i == IndexSlash(gv)
         IN [err |-> FALSE, Group |-> SubSeq(gv, 1, i - 1),
             Version |-> SubSeq(gv, i + 1, Len(gv))]
    ELSE [err |-> TRUE, Group |-> <<>>, Version |-> <<>>]

\* schema.FromAPIVersionAndKind: a GroupVersion that does not parse leaves
\* only the kind
FromAPIVersionAndKind(apiVersion, kind) ==
    LET gv == ParseGroupVersion(apiVersion)
    IN IF gv.err THEN [Group |-> <<>>, Version |-> <<>>, Kind |-> kind]
       ELSE [Group |-> gv.Group, Version |-> gv.Version, Kind |-> kind]

\* GroupVersion.String
GroupVersionString(gvk) ==
    IF Len(gvk.Group) > 0 THEN gvk.Group \o <<Slash>> \o gvk.Version
    ELSE gvk.Version

\* GroupVersionKind.ToAPIVersionAndKind
ToAPIVersionAndKind(gvk) ==
    IF gvk.Group = <<>> /\ gvk.Version = <<>> /\ gvk.Kind = ""
    THEN [APIVersion |-> <<>>, Kind |-> ""]
    ELSE [APIVersion |-> GroupVersionString(gvk), Kind |-> gvk.Kind]

\* admissionReviewResponse.SetGroupVersionKind(admissionReviewRequest.GroupVersionKind())
CopyGroupVersionKind(review) ==
    ToAPIVersionAndKind(FromAPIVersionAndKind(review.APIVersion, review.Kind))

\* ------------------------------------------------------- stages, as functions
\* variant: the media type is compared without its parameters
ContentTypePrefixOK(ct) ==
    ct \in {"application/json", "application/json; charset=utf-8"}

\* r.Header.Get("Content-Type") != "application/json", negated
ContentTypeOK(ct) == ct = "application/json"

\* deserializer.Decode(body, nil, admissionReviewRequest): the serializer first
\* reads apiVersion and kind (and fails on an apiVersion that does not parse),
\* then, the type being unregistered, unmarshals the document as it is
DecodeReview(body) ==
    IF body.shape # "review"
    THEN [err |-> "couldn't get version/kind; json parse error", review |-> NoReview]
    ELSE IF ParseGroupVersion(body.review.APIVersion).err
    THEN [err |-> "unexpected GroupVersion string", review |-> NoReview]
    ELSE [err |-> "", review |-> body.review]

\* admissionReviewFromRequest: the error, the review, and the steps it took
admissionReviewFromRequest(r) ==
    IF ~ContentTypeOK(r.contentType)
    THEN [err |-> "expected application/json content-type", review |-> NoReview,
          ops |-> <<>>]
    ELSE IF r.body.shape = "unreadable"
    THEN [err |-> "unexpected EOF", review |-> NoReview, ops |-> <<"readBody">>]
    ELSE LET d == DecodeReview(r.body)
         IN [err |-> d.err, review |-> d.review,
             ops |-> <<"readBody", "decodeReview">>]

podResource == [Group |-> "", Version |-> "v1", Resource |-> "pods"]

\* variant: only the resource name is compared
IsPodResourceByName(res) == res.Resource = podResource.Resource

\* admissionReviewRequest.Request.Resource != podResource, negated
IsPodResource(res) == res = podResource

\* deserializer.Decode(rawRequest, nil, &pod)
DecodePod(raw) ==
    IF raw.shape = "pod" THEN [err |-> "", Labels |-> raw.labels]
    ELSE [err |-> "json: cannot unmarshal into Go value of type v1.Pod", Labels |-> <<>>]

MissingLabelMessage == "missing required hello label"
DeprecationWarning == "world will be deprecated for hello in the future"

\* variant: the label key is looked up without regard to case
EvaluatePodAnyCase(labels) ==
    LET ks == DOMAIN labels \cap {"hello", "Hello"}
    IN IF ks = {}
       THEN [UID |-> "", Allowed |-> FALSE,
             Result |-> <<[Message |-> MissingLabelMessage]>>, Warnings |-> <<>>]
       ELSE IF \E k \in ks : labels[k] = "world"
       THEN [UID |-> "", Allowed |-> TRUE, Result |-> <<>>,
             Warnings |-> <<DeprecationWarning>>]
       ELSE [UID |-> "", Allowed |-> TRUE, Result |-> <<>>, Warnings |-> <<>>]

\* variant: the else-if branch of line 131 is missing
EvaluatePodNoWarning(labels) ==
    IF "hello" \notin DOMAIN labels
    THEN [UID |-> "", Allowed |-> FALSE,
          Result |-> <<[Message |-> MissingLabelMessage]>>, Warnings |-> <<>>]
    ELSE [UID |-> "", Allowed |-> TRUE, Result |-> <<>>, Warnings |-> <<>>]

\* variant: the label is read without the comma-ok form, so an empty value
\* counts as missing
EvaluatePodEmptyIsMissing(labels) ==
    IF "hello" \notin DOMAIN labels \/ labels["hello"] = ""
    THEN [UID |-> "", Allowed |-> FALSE,
          Result |-> <<[Message |-> MissingLabelMessage]>>, Warnings |-> <<>>]
    ELSE IF labels["hello"] = "world"
    THEN [UID |-> "", Allowed |-> TRUE, Result |-> <<>>,
          Warnings |-> <<DeprecationWarning>>]
    ELSE [UID |-> "", Allowed |-> TRUE, Result |-> <<>>, Warnings |-> <<>>]

\* variant: the deprecation text is put in the Result of an allowed response
EvaluatePodWarnInStatus(labels) ==
    IF "hello" \notin DOMAIN labels
    THEN [UID |-> "", Allowed |-> FALSE,
          Result |-> <<[Message |-> MissingLabelMessage]>>, Warnings |-> <<>>]
    ELSE IF labels["hello"] = "world"
    THEN [UID |-> "", Allowed |-> TRUE,
          Result |-> <<[Message |-> DeprecationWarning]>>, Warnings |-> <<>>]
    ELSE [UID |-> "", Allowed |-> TRUE, Result |-> <<>>, Warnings |-> <<>>]

\* lines 123-133: the AdmissionResponse for a decoded pod
EvaluatePod(labels) ==
    IF "hello" \notin DOMAIN labels
    THEN [UID |-> "", Allowed |-> FALSE,
          Result |-> <<[Message |-> MissingLabelMessage]>>, Warnings |-> <<>>]
    ELSE IF labels["hello"] = "world"
    THEN [UID |-> "", Allowed |-> TRUE, Result |-> <<>>,
          Warnings |-> <<DeprecationWarning>>]
    ELSE [UID |-> "", Allowed |-> TRUE, Result |-> <<>>, Warnings |-> <<>>]

\* lines 136-139: the response AdmissionReview
BuildResponse(review, admissionResponse) ==
    LET tm == CopyGroupVersionKind(review)
    IN [APIVersion |-> tm.APIVersion, Kind |-> tm.Kind,
        Response |-> <<[admissionResponse EXCEPT !.UID = review.Request[1].UID]>>]

\* json.Marshal of metav1.Status: metadata is a struct and always written,
\* message is omitempty
MarshalStatus(st) ==
    IF st.Message = "" THEN [k \in {"metadata"} |-> ""]
    ELSE [k \in {"metadata", "message"} |->
            IF k = "message" THEN st.Message ELSE ""]

\* json.Marshal of AdmissionResponse: uid and allowed always, status and
\* warnings omitempty
MarshalResponse(resp) ==
    LET keys == {"uid", "allowed"}
                \cup (IF resp.Result = <<>> THEN {} ELSE {"status"})
                \cup (IF Len(resp.Warnings) = 0 THEN {} ELSE {"warnings"})
    IN [k \in keys |->
          CASE k = "uid" -> resp.UID
            [] k = "allowed" -> resp.Allowed
            [] k = "status" -> MarshalStatus(resp.Result[1])
            [] k = "warnings" -> resp.Warnings]

\* json.Marshal of AdmissionReview: every field is omitempty
Marshal(review) ==
    LET keys == (IF review.Kind = "" THEN {} ELSE {"kind"})
                \cup (IF review.APIVersion = <<>> THEN {} ELSE {"apiVersion"})
                \cup (IF review.Response = <<>> THEN {} ELSE {"response"})
    IN [k \in keys |->
          CASE k = "kind" -> review.Kind
            [] k = "apiVersion" -> review.APIVersion
            [] k = "response" -> MarshalResponse(review.Response[1])]

\* ------------------------------------------------- reading a JSON document
\* what a client decoding the body reads: an omitted field is the zero value
JsonString(obj, k) == IF k \in DOMAIN obj THEN obj[k] ELSE ""
JsonApiVersion(obj) == IF "apiVersion" \in DOMAIN obj THEN obj["apiVersion"] ELSE <<>>
JsonList(obj, k) == IF k \in DOMAIN obj THEN obj[k] ELSE <<>>
JsonHas(obj, k) == k \in DOMAIN obj

\* ------------------------------------------------------ http.ResponseWriter
\* status 0: no header written yet
NoW == [status |-> 0, contentType |-> "", text |-> <<>>, json |-> <<>>, writes |-> 0]

\* w.WriteHeader(code)
WriteHeader(wr, code) == IF wr.status = 0 THEN [wr EXCEPT !.status = code] ELSE wr

\* w.Write([]byte(msg)): the first write sends the header, 200 unless one was set
WriteText(wr, msg) ==
    [wr EXCEPT !.status = IF wr.status = 0 THEN StatusOK ELSE wr.status,
               !.text = msg, !.writes = wr.writes + 1]

\* w.Header().Set("Content-Type", "application/json"); w.Write(resp)
WriteJSON(wr, doc) ==
    [wr EXCEPT !.status = IF wr.status = 0 THEN StatusOK ELSE wr.status,
               !.contentType = "application/json",
               !.json = doc, !.writes = wr.writes + 1]

\* the error replies: msg := fmt.Sprintf(...); w.WriteHeader(code); w.Write(msg)
ReviewErrorMsg(err) == <<"error getting admission review from request: ", err>>
NotPodMsg(resource) == <<"did not receive pod, got ", resource>>
PodErrorMsg(err) == <<"error decoding raw pod: ", err>>
PanicLine == <<"http: panic serving: runtime error: invalid memory address or nil pointer dereference">>
ReceivedLine == <<"received message on validate">>

\* ------------------------------------------------------------------- state
VARIABLES
    pc,                       \* where each invocation of validatePod stands
    r,                        \* its *http.Request
    admissionReviewRequest,   \* its decoded AdmissionReview
    pod,                      \* the labels of its decoded corev1.Pod
    admissionResponse,        \* its AdmissionResponse
    w,                        \* its http.ResponseWriter
    ops,                      \* the steps it has taken on the request, in order
    logger                    \* the last line written by the shared logger

vars == <<pc, r, admissionReviewRequest, pod, admissionResponse, w, ops, logger>>

NoRequest == [contentType |-> "", body |-> [shape |-> "garbage", review |-> NoReview]]
NoResponse == [UID |-> "", Allowed |-> FALSE, Result |-> <<>>, Warnings |-> <<>>]

Init ==
    /\ pc = [h \in Handlers |-> "idle"]
    /\ r = [h \in Handlers |-> NoRequest]
    /\ admissionReviewRequest = [h \in Handlers |-> NoReview]
    /\ pod = [h \in Handlers |-> <<>>]
    /\ admissionResponse = [h \in Handlers |-> NoResponse]
    /\ w = [h \in Handlers |-> NoW]
    /\ ops = [h \in Handlers |-> <<>>]
    /\ logger = <<>>

\* ----------------------------------------------------------------- actions
\* the server calls validatePod (line 161) with one of the requests reqs; line 83
Receive(h, reqs) ==
    /\ pc[h] = "idle"
    /\ \E req \in reqs : r' = [r EXCEPT ![h] = req]
    /\ logger' = ReceivedLine
    /\ pc' = [pc EXCEPT ![h] = "parse"]
    /\ UNCHANGED <<admissionReviewRequest, pod, admissionResponse, w, ops>>

\* an error branch of validatePod: log, WriteHeader, Write, return
Fail(h, code, msg) ==
    /\ logger' = msg
    /\ w' = [w EXCEPT ![h] = WriteText(WriteHeader(w[h], code), msg)]
    /\ pc' = [pc EXCEPT ![h] = "done"]

\* lines 85-95
ParseReview(h) ==
    /\ pc[h] = "parse"
    /\ LET res == admissionReviewFromRequest(r[h])
       IN /\ ops' = [ops EXCEPT ![h] = res.ops]
          /\ IF res.err # ""
             THEN /\ Fail(h, StatusBadRequest, ReviewErrorMsg(res.err))
                  /\ UNCHANGED admissionReviewRequest
             ELSE /\ admissionReviewRequest' =
                        [admissionReviewRequest EXCEPT ![h] = res.review]
                  /\ pc' = [pc EXCEPT ![h] = "checkResource"]
                  /\ UNCHANGED <<w, logger>>
    /\ UNCHANGED <<r, pod, admissionResponse>>

\* lines 100-107.  Request is a pointer: when the document had no request
\* section it is nil and line 101 panics; net/http recovers the panic, logs it
\* to the server's ErrorLog (line 167) and drops the connection unanswered
CheckResource(h) ==
    /\ pc[h] = "checkResource"
    /\ IF admissionReviewRequest[h].Request = <<>>
       THEN /\ pc' = [pc EXCEPT ![h] = "aborted"]
            /\ logger' = PanicLine
            /\ UNCHANGED <<w, ops>>
       ELSE /\ ops' = [ops EXCEPT ![h] = Append(@, "checkResource")]
            /\ IF ~IsPodResource(admissionReviewRequest[h].Request[1].Resource)
               THEN Fail(h, StatusBadRequest,
                         NotPodMsg(admissionReviewRequest[h].Request[1].Resource.Resource))
               ELSE /\ pc' = [pc EXCEPT ![h] = "decodePod"]
                    /\ UNCHANGED <<w, logger>>
    /\ UNCHANGED <<r, admissionReviewRequest, pod, admissionResponse>>

\* variant: pod is a package-level variable, written by every invocation
DecodeRawPodShared(h) ==
    /\ pc[h] = "decodePod"
    /\ ops' = [ops EXCEPT ![h] = Append(@, "decodePod")]
    /\ LET d == DecodePod(admissionReviewRequest[h].Request[1].Object)
       IN IF d.err # ""
          THEN /\ logger' = PodErrorMsg(d.err)
               /\ w' = [w EXCEPT ![h] =
                          WriteText(WriteHeader(w[h], StatusInternalServerError),
                                    PodErrorMsg(d.err))]
               /\ pc' = [pc EXCEPT ![h] = "done"]
               /\ UNCHANGED pod
          ELSE /\ pod' = [g \in Handlers |-> d.Labels]
               /\ pc' = [pc EXCEPT ![h] = "evaluate"]
               /\ UNCHANGED <<w, logger>>
    /\ UNCHANGED <<r, admissionReviewRequest, admissionResponse>>

\* lines 110-118
DecodeRawPod(h) ==
    /\ pc[h] = "decodePod"
    /\ ops' = [ops EXCEPT ![h] = Append(@, "decodePod")]
    /\ LET d == DecodePod(admissionReviewRequest[h].Request[1].Object)
       IN IF d.err # ""
          THEN /\ Fail(h, StatusInternalServerError, PodErrorMsg(d.err))
               /\ UNCHANGED pod
          ELSE /\ pod' = [pod EXCEPT ![h] = d.Labels]
               /\ pc' = [pc EXCEPT ![h] = "evaluate"]
               /\ UNCHANGED <<w, logger>>
    /\ UNCHANGED <<r, admissionReviewRequest, admissionResponse>>

\* lines 123-133
Evaluate(h) ==
    /\ pc[h] = "evaluate"
    /\ ops' = [ops EXCEPT ![h] = Append(@, "evaluate")]
    /\ admissionResponse' = [admissionResponse EXCEPT ![h] = EvaluatePod(pod[h])]
    /\ pc' = [pc EXCEPT ![h] = "respond"]
    /\ UNCHANGED <<r, admissionReviewRequest, pod, w, logger>>

\* lines 136-151.  json.Marshal cannot fail on an AdmissionReview built here
\* (strings, a bool and a string slice), so the branch of lines 142-148 is dead.
\* admissionReviewResponse.Response is the pointer admissionResponse (line 137),
\* so the UID written at line 139 is written to admissionResponse itself
Respond(h) ==
    /\ pc[h] = "respond"
    /\ LET review == BuildResponse(admissionReviewRequest[h], admissionResponse[h])
       IN /\ admissionResponse' = [admissionResponse EXCEPT ![h] = review.Response[1]]
          /\ w' = [w EXCEPT ![h] = WriteJSON(@, Marshal(review))]
    /\ pc' = [pc EXCEPT ![h] = "done"]
    /\ UNCHANGED <<r, admissionReviewRequest, pod, ops, logger>>

\* validatePod has returned (or its goroutine has unwound); the next request
\* gets fresh locals and a fresh ResponseWriter
Return(h) ==
    /\ pc[h] \in {"done", "aborted"}
    /\ pc' = [pc EXCEPT ![h] = "idle"]
    /\ r' = [r EXCEPT ![h] = NoRequest]
    /\ admissionReviewRequest' = [admissionReviewRequest EXCEPT ![h] = NoReview]
    /\ pod' = [pod EXCEPT ![h] = <<>>]
    /\ admissionResponse' = [admissionResponse EXCEPT ![h] = NoResponse]
    /\ w' = [w EXCEPT ![h] = NoW]
    /\ ops' = [ops EXCEPT ![h] = <<>>]
    /\ UNCHANGED logger

\* --------------------------------------------------------- specifications
\* one request at a time, over every request of the input sets
FirstHandler == CHOOSE h \in Handlers : \A g \in Handlers : h <= g

Next ==
    \/ Receive(FirstHandler, Requests)
    \/ ParseReview(FirstHandler)
    \/ CheckResource(FirstHandler)
    \/ DecodeRawPod(FirstHandler)
    \/ Evaluate(FirstHandler)
    \/ Respond(FirstHandler)
    \/ Return(FirstHandler)

Spec == Init /\ [][Next]_vars

\* concurrent invocations (one goroutine per request), over requests that
\* take every path through validatePod
AdmissionV1 == <<"admission.k8s.io", Slash, "v1">>
ConcPods == [shape : {"pod"},
             labels : UNION {[D -> {"world", ""}] : D \in SUBSET {"hello"}}]
ConcGarbage == [shape |-> "garbage", labels |-> <<>>]
ConcAdmissionRequests ==
    [UID : UIDs, Resource : {podResource}, Object : ConcPods \cup {ConcGarbage}]
    \cup [UID : UIDs,
          Resource : {[Group |-> "apps", Version |-> "v1", Resource |-> "deployments"]},
          Object : {ConcGarbage}]
ConcBodies ==
    {[shape |-> "garbage", review |-> NoReview]}
    \cup [shape : {"review"},
          review : [APIVersion : {AdmissionV1}, Kind : {"AdmissionReview"},
                    Request : {<<>>} \cup {<<a>> : a \in ConcAdmissionRequests}]]
ConcRequests ==
    {[contentType |-> "text/plain", body |-> [shape |-> "garbage", review |-> NoReview]]}
    \cup [contentType : {"application/json"}, body : ConcBodies]

NextConc ==
    \E h \in Handlers :
        \/ Receive(h, ConcRequests)
        \/ ParseReview(h)
        \/ CheckResource(h)
        \/ DecodeRawPod(h)
        \/ Evaluate(h)
        \/ Respond(h)
        \/ Return(h)

SpecConc == Init /\ [][NextConc]_vars

\* validatePod on one request, start to finish with nothing else running:
\* whether it answered, and what the ResponseWriter then holds
validatePod(req) ==
    LET a == admissionReviewFromRequest(req)
    IN IF a.err # ""
       THEN [answered |-> TRUE,
             w |-> WriteText(WriteHeader(NoW, StatusBadRequest), ReviewErrorMsg(a.err))]
       ELSE IF a.review.Request = <<>>
       THEN [answered |-> FALSE, w |-> NoW]
       ELSE IF ~IsPodResource(a.review.Request[1].Resource)
       THEN [answered |-> TRUE,
             w |-> WriteText(WriteHeader(NoW, StatusBadRequest),
                             NotPodMsg(a.review.Request[1].Resource.Resource))]
       ELSE LET d == DecodePod(a.review.Request[1].Object)
            IN IF d.err # ""
               THEN [answered |-> TRUE,
                     w |-> WriteText(WriteHeader(NoW, StatusInternalServerError),
                                     PodErrorMsg(d.err))]
               ELSE [answered |-> TRUE,
                     w |-> WriteJSON(NoW,
                             Marshal(BuildResponse(a.review, EvaluatePod(d.Labels))))]

\* ------------------------------------------------------------------ claims
\* the request, read as the caller wrote it
HasJSONContentType(q) == q.contentType = "application/json"
EnvelopeDecodes(q) ==
    /\ q.body.shape = "review"
    /\ CountSlash(q.body.review.APIVersion) <= 1
HasRequestSection(q) == q.body.review.Request # <<>>
ResourceOf(q) == q.body.review.Request[1].Resource
IsPodTriple(res) == res.Group = "" /\ res.Version = "v1" /\ res.Resource = "pods"
ObjectOf(q) == q.body.review.Request[1].Object
\* valid envelope, Pod triple, Pod object
PodRequest(q) ==
    /\ HasJSONContentType(q)
    /\ EnvelopeDecodes(q)
    /\ HasRequestSection(q)
    /\ IsPodTriple(ResourceOf(q))
    /\ ObjectOf(q).shape = "pod"
LabelsOf(q) == ObjectOf(q).labels
Ended(h) == pc[h] \in {"done", "aborted"}
Evaluated(h) == pc[h] \in {"respond", "done"} /\ PodRequest(r[h])

\* C1: for a request with a valid envelope, the Pod triple and a Pod object,
\* the response envelope carries the request's uid and the request envelope's
\* apiVersion and kind.  (Fails: an apiVersion with a leading "/" decodes and
\* comes back without it.)
C1_ResponseEchoesRequest ==
    \A h \in Handlers :
        (pc[h] = "done" /\ PodRequest(r[h])) =>
            /\ w[h].status = StatusOK
            /\ JsonString(w[h].json["response"], "uid")
                 = r[h].body.review.Request[1].UID
            /\ JsonApiVersion(w[h].json) = r[h].body.review.APIVersion
            /\ JsonString(w[h].json, "kind") = r[h].body.review.Kind

\* C2: a Pod whose labels do not hold the key "hello" (no labels at all
\* included) is denied with the message "missing required hello label" and
\* no warnings.
C2_MissingLabelDenied ==
    \A h \in Handlers :
        (Evaluated(h) /\ "hello" \notin DOMAIN LabelsOf(r[h])) =>
            /\ admissionResponse[h].Allowed = FALSE
            /\ admissionResponse[h].Result
                 = <<[Message |-> "missing required hello label"]>>
            /\ admissionResponse[h].Warnings = <<>>

C2_Witness ==
    \E h \in Handlers :
        /\ pc[h] = "done" /\ PodRequest(r[h])
        /\ DOMAIN LabelsOf(r[h]) = {"Hello"}
        /\ admissionResponse[h].Allowed = FALSE

\* C3: a Pod with "hello" = "world" is allowed with no message and the one
\* warning "world will be deprecated for hello in the future", whatever other
\* labels it has.
C3_WorldAllowedWithWarning ==
    \A h \in Handlers :
        (/\ Evaluated(h)
         /\ "hello" \in DOMAIN LabelsOf(r[h])
         /\ LabelsOf(r[h])["hello"] = "world") =>
            /\ admissionResponse[h].Allowed = TRUE
            /\ admissionResponse[h].Result = <<>>
            /\ admissionResponse[h].Warnings
                 = <<"world will be deprecated for hello in the future">>

C3_Witness ==
    \E h \in Handlers :
        /\ pc[h] = "done" /\ PodRequest(r[h])
        /\ DOMAIN LabelsOf(r[h]) = {"hello", "Hello"}
        /\ LabelsOf(r[h])["hello"] = "world"
        /\ Len(admissionResponse[h].Warnings) = 1

\* C4: a Pod with "hello" set to anything but exactly "world" ("World" and
\* the empty string included) is allowed with no message and no warnings.
C4_OtherValueAllowed ==
    \A h \in Handlers :
        (/\ Evaluated(h)
         /\ "hello" \in DOMAIN LabelsOf(r[h])
         /\ LabelsOf(r[h])["hello"] # "world") =>
            /\ admissionResponse[h].Allowed = TRUE
            /\ admissionResponse[h].Result = <<>>
            /\ admissionResponse[h].Warnings = <<>>

C4_Witness ==
    \E h \in Handlers :
        /\ pc[h] = "done" /\ PodRequest(r[h])
        /\ "hello" \in DOMAIN LabelsOf(r[h])
        /\ LabelsOf(r[h])["hello"] = ""
        /\ admissionResponse[h].Allowed = TRUE

\* the response envelope a handler has written, if it wrote one
WroteEnvelope(h) ==
    /\ pc[h] = "done"
    /\ w[h].contentType = "application/json"
    /\ JsonHas(w[h].json, "response")
StatusMessagePresent(resp) ==
    /\ JsonHas(resp, "status")
    /\ JsonString(resp["status"], "message") # ""

\* C5: in every response envelope written, the status message is present if
\* and only if allowed is false.
C5_MessageIffDenied ==
    \A h \in Handlers :
        WroteEnvelope(h) =>
            (StatusMessagePresent(w[h].json["response"])
               <=> (w[h].json["response"]["allowed"] = FALSE))

C5_Witness ==
    \E h \in Handlers :
        /\ WroteEnvelope(h)
        /\ w[h].json["response"]["allowed"] = FALSE
        /\ w[h].json["response"]["status"]["message"] = "missing required hello label"

\* the first stage that fails, read off the request
ContentTypeFails(q) == ~HasJSONContentType(q)
\* the body is no admission envelope: it does not decode, or it decodes to a
\* document with no request section
EnvelopeFails(q) ==
    /\ HasJSONContentType(q)
    /\ (~EnvelopeDecodes(q) \/ ~HasRequestSection(q))
ResourceFails(q) ==
    /\ HasJSONContentType(q) /\ EnvelopeDecodes(q) /\ HasRequestSection(q)
    /\ ~IsPodTriple(ResourceOf(q))
ObjectFails(q) ==
    /\ HasJSONContentType(q) /\ EnvelopeDecodes(q) /\ HasRequestSection(q)
    /\ IsPodTriple(ResourceOf(q))
    /\ ObjectOf(q).shape # "pod"

\* C6: once validatePod has ended, the status is 400 exactly when the
\* content-type check, the envelope decode or the resource-type check failed,
\* 500 exactly when the embedded-object decode failed, and 200 exactly when
\* every stage succeeded, a denial included; every request is in one of the
\* three classes.  (Fails: an envelope with no request section gets no
\* status at all, line 101 panics on it.)
C6_StatusByFirstFailure ==
    \A h \in Handlers :
        Ended(h) =>
            /\ (w[h].status = StatusBadRequest) <=>
                 (ContentTypeFails(r[h]) \/ EnvelopeFails(r[h]) \/ ResourceFails(r[h]))
            /\ (w[h].status = StatusInternalServerError) <=> ObjectFails(r[h])
            /\ (w[h].status = StatusOK) <=> PodRequest(r[h])

\* C7: a request whose Content-Type is not exactly "application/json" is
\* answered 400, and nothing reads or decodes its body, checks its resource
\* type or evaluates policy on it.
C7_WrongContentTypeRejectedFirst ==
    \A h \in Handlers :
        (pc[h] \notin {"idle", "parse"} /\ r[h].contentType # "application/json") =>
            /\ pc[h] = "done"
            /\ w[h].status = StatusBadRequest
            /\ w[h].writes = 1
            /\ ops[h] = <<>>

C7_Witness ==
    \E h \in Handlers :
        /\ pc[h] = "done"
        /\ r[h].contentType = "application/json; charset=utf-8"
        /\ r[h].body.shape = "review"
        /\ w[h].status = StatusBadRequest

\* C8: a decoded envelope whose resource triple differs from {"", "v1",
\* "pods"} in any field is answered 400 with a body naming the received
\* resource, and its embedded object is never decoded nor policy evaluated.
C8_WrongResourceRejected ==
    \A h \in Handlers :
        (pc[h] \notin {"idle", "parse", "checkResource"} /\ ResourceFails(r[h])) =>
            /\ pc[h] = "done"
            /\ w[h].status = StatusBadRequest
            /\ w[h].text = <<"did not receive pod, got ", ResourceOf(r[h]).Resource>>
            /\ \A i \in 1..Len(ops[h]) : ops[h][i] \notin {"decodePod", "evaluate"}

\* the triple differs in the group alone
C8_Witness ==
    \E h \in Handlers :
        /\ pc[h] = "done" /\ ResourceFails(r[h])
        /\ ResourceOf(r[h]) = [Group |-> "apps", Version |-> "v1", Resource |-> "pods"]
        /\ ObjectOf(r[h]).shape = "pod"
        /\ w[h].status = StatusBadRequest

\* C9: whatever else runs or ran, an invocation ends as it would alone on the
\* same request, and two invocations on the same request end alike.
C9_OutcomeDependsOnRequestOnly ==
    /\ \A h \in Handlers :
          Ended(h) => [answered |-> pc[h] = "done", w |-> w[h]] = validatePod(r[h])
    /\ \A g, h \in Handlers :
          (Ended(g) /\ Ended(h) /\ r[g] = r[h]) => (pc[g] = pc[h] /\ w[g] = w[h])

\* one invocation has answered 200 while another, on a different request, is
\* between decoding its pod and answering
C9_Witness ==
    \E g, h \in Handlers :
        /\ g # h
        /\ pc[g] = "done" /\ w[g].status = StatusOK
        /\ pc[h] \in {"evaluate", "respond"}
        /\ r[g] # r[h]

\* C10: every invocation ends having written exactly one response with status
\* 200, 400 or 500, and a document with no request section is answered 400
\* without reaching the resource-type check.  (Fails: such a document decodes
\* with a nil Request, and line 101 panics on it.)
C10_AlwaysAnswers ==
    \A h \in Handlers :
        Ended(h) =>
            /\ pc[h] = "done"
            /\ w[h].writes = 1
            /\ w[h].status \in {StatusOK, StatusBadRequest, StatusInternalServerError}
            /\ (/\ HasJSONContentType(r[h]) /\ EnvelopeDecodes(r[h])
                /\ ~HasRequestSection(r[h])) => w[h].status = StatusBadRequest

====
